---------------------------- MODULE Spec2Model ----------------------------
(***************************************************************************)
(* A model of vcfcomparator.py: the genome segmenter (split_genome and     *)
(* Segment), the interval utilities, the matcher (vcfVariantMatch), the    *)
(* directional comparator (compareVCFs, driven twice by parseVCFs) and the *)
(* summary aggregator (summary, Summary.add).                              *)
(*                                                                         *)
(* Each subsystem has its own specification (SpecSeg, ...); the variables  *)
(* of the other subsystems stay at their idle values.                      *)
(***************************************************************************)
EXTENDS Integers, Sequences, FiniteSets, TLC

VARIABLES
    \* ---- split_genome ----
    sg_pc,      \* position in split_genome: "start","split","deal","done","error"
    sg_chroms,  \* the chromosome-length table: sequence of lengths, chromosome i is line i
    sg_n,       \* parameter n
    sg_minlen,  \* parameter minlen
    segs,       \* local list segs
    jobs,       \* local list jobs (n lists of Segment)
    sg_j,       \* index j of the inner for loop of the deal
    splitlog,   \* history: for every bisection, the length popped and the lengths before the pop
    dealt,      \* history: the segments in the order they were dealt
    \* ---- get_overlap_coords ----
    ov_pc,      \* "idle", "input", "done"
    ov_a,       \* argument iv_a
    ov_b,       \* argument iv_b
    ov_res,     \* the value returned
    ov_prev,    \* the value returned by the call before the swap
    \* ---- vcfVariantMatch, Variant.interval_score ----
    m_pc,       \* "idle", "input", "matched", "scored"
    m_recA,     \* record recA
    m_recB,     \* record recB
    m_res,      \* the value vcfVariantMatch returned
    m_score,    \* the value interval_score returned, or the failed assertion
    \* ---- compareVCFs ----
    c_pc,       \* "idle", "loop", "done", "error"
    c_src,      \* the records h_vcfA.fetch yields, in file order
    c_tgt,      \* the records of h_interval_vcfB, in file order
    c_mask,     \* parameter mask
    c_truth,    \* parameter truth
    c_i,        \* number of source records taken from the traversal (recnum)
    c_nskip,    \* local nskip
    c_cmp,      \* local cmp: the Comparison being built
    c_used,     \* local used_B_interval (its keys)
    c_faillog,  \* history: the source records whose fetch from the target failed
    \* ---- summary ----
    su_pc,      \* "idle", "types", "segments", "done"
    su_AB,      \* parameter compAB_list
    su_BA,      \* parameter compBA_list
    su_s,       \* local s: the Summary of every variant type started
    su_vtype,   \* the variant type of the outer loop
    su_k,       \* number of segments summed for su_vtype
    su_nshared, \* locals <<n_shared_AB, n_shared_BA>>
    su_warned,  \* the variant types the asymmetry warning was written for
    \* ---- Summary.add ----
    ad_pc,      \* "idle", "run", "error"
    ad_objs,    \* the Summary objects
    ad_orig,    \* history: the objects as they were at the start
    ad_merged,  \* history: ad_merged[i][j] is the number of times object j's
                \* original counts were merged into object i
    ad_n,       \* number of add calls made
    ad_last,    \* history: the last call, <<self, other, the objects before it>>
    \* ---- the somatic predicates ----
    so_pc,      \* "idle", "input", "A", "B"
    so_v,       \* the pair the predicate is called on
    so_res      \* the value returned

sgvars == <<sg_pc, sg_chroms, sg_n, sg_minlen, segs, jobs, sg_j, splitlog, dealt>>
ovvars == <<ov_pc, ov_a, ov_b, ov_res, ov_prev>>
mvars == <<m_pc, m_recA, m_recB, m_res, m_score>>
cvars == <<c_pc, c_src, c_tgt, c_mask, c_truth, c_i, c_nskip, c_cmp, c_used, c_faillog>>
suvars == <<su_pc, su_AB, su_BA, su_s, su_vtype, su_k, su_nshared, su_warned>>
advars == <<ad_pc, ad_objs, ad_orig, ad_merged, ad_n, ad_last>>

sovars == <<so_pc, so_v, so_res>>
vars == <<sgvars, ovvars, mvars, cvars, suvars, advars, sovars>>

IdleSeg ==
    /\ sg_pc = "idle"
    /\ sg_chroms = <<>>
    /\ sg_n = 0
    /\ sg_minlen = 0
    /\ segs = <<>>
    /\ jobs = <<>>
    /\ sg_j = 0
    /\ splitlog = <<>>
    /\ dealt = <<>>

IdleOv ==
    /\ ov_pc = "idle"
    /\ ov_a = <<0, 0>>
    /\ ov_b = <<0, 0>>
    /\ ov_res = <<0, 0>>
    /\ ov_prev = <<0, 0>>

IdleCmp ==
    /\ c_pc = "idle"
    /\ c_src = <<>>
    /\ c_tgt = <<>>
    /\ c_mask = [present |-> FALSE, contigs |-> {}, hits |-> {}]
    /\ c_truth = [present |-> FALSE, recs |-> <<>>]
    /\ c_i = 0
    /\ c_nskip = 0
    /\ c_cmp = [SNV |-> <<>>, INDEL |-> <<>>]
    /\ c_used = {}
    /\ c_faillog = {}

IdleSum ==
    /\ su_pc = "idle"
    /\ su_AB = <<>>
    /\ su_BA = <<>>
    /\ su_s = <<>>
    /\ su_vtype = ""
    /\ su_k = 0
    /\ su_nshared = <<0, 0>>
    /\ su_warned = {}

IdleAdd ==
    /\ ad_pc = "idle"
    /\ ad_objs = <<>>
    /\ ad_orig = <<>>
    /\ ad_merged = <<>>
    /\ ad_n = 0
    /\ ad_last = <<>>

IdleSom ==
    /\ so_pc = "idle"
    /\ so_v = <<>>
    /\ so_res = FALSE

IdleMatch ==
    /\ m_pc = "idle"
    /\ m_recA = <<>>
    /\ m_recB = <<>>
    /\ m_res = FALSE
    /\ m_score = [ok |-> FALSE, num |-> 0, den |-> 0]

-----------------------------------------------------------------------------
(* Bounds of the model *)

MaxChroms == 2
MaxLen == 6
MaxN == 4

\* values of minlen tried (the default 1e6 scaled down to the model's lengths)
MinLens == {0, 2}

-----------------------------------------------------------------------------
(* Generic helpers *)

RECURSIVE SeqSum(_)
SeqSum(s) == IF s = <<>> THEN 0 ELSE Head(s) + SeqSum(Tail(s))

RECURSIVE Flatten(_)
Flatten(ss) == IF ss = <<>> THEN <<>> ELSE Head(ss) \o Flatten(Tail(ss))

SeqsUpTo(S, k) == UNION {[1..m -> S] : m \in 0..k}

Max2(a, b) == IF a >= b THEN a ELSE b
Min2(a, b) == IF a <= b THEN a ELSE b

-----------------------------------------------------------------------------
(* Segment *)

\* Segment.__init__(line): a whole chromosome
Segment(c, len) == [chrom |-> c, start |-> 0, end |-> len, length |-> len]

\* Segment.left: lseg.end = self.start + int(self.length/2)
left(seg) ==
    LET e == seg.start + (seg.length \div 2)
    IN  [chrom |-> seg.chrom, start |-> seg.start, end |-> e, length |-> e - seg.start]

\* Segment.right: rseg.start = self.end - int(self.length/2)
right(seg) ==
    LET s == seg.end - (seg.length \div 2)
    IN  [chrom |-> seg.chrom, start |-> s, end |-> seg.end, length |-> seg.end - s]

\* Segment.__gt__, as list.sort uses it (a < b is b.__gt__(a))
SegLess(a, b) == b.length > a.length

\* list.sort() is stable: x goes after every element that is not greater than it
RECURSIVE InsertSeg(_, _)
InsertSeg(s, x) ==
    IF s = <<>> THEN <<x>>
    ELSE IF SegLess(x, s[Len(s)]) THEN Append(InsertSeg(SubSeq(s, 1, Len(s) - 1), x), s[Len(s)])
    ELSE Append(s, x)

RECURSIVE SortFrom(_, _)
SortFrom(acc, s) == IF s = <<>> THEN acc ELSE SortFrom(InsertSeg(acc, Head(s)), Tail(s))

NoSort(s) == s

\* segs.sort()
SortSegs(s) == SortFrom(<<>>, s)

-----------------------------------------------------------------------------
(* split_genome *)

\* the segments read from the table: one per line whose length is above minlen
RECURSIVE ReadSegs(_, _, _)
ReadSegs(table, i, minlen) ==
    IF i > Len(table) THEN <<>>
    ELSE IF table[i] > minlen
         THEN <<Segment(i, table[i])>> \o ReadSegs(table, i + 1, minlen)
         ELSE ReadSegs(table, i + 1, minlen)

InitSeg ==
    /\ sg_pc = "start"
    /\ sg_chroms \in SeqsUpTo(1..MaxLen, MaxChroms)
    /\ sg_n \in 0..MaxN
    /\ sg_minlen \in MinLens
    /\ segs = <<>>
    /\ jobs = <<>>
    /\ sg_j = 0
    /\ splitlog = <<>>
    /\ dealt = <<>>
    /\ IdleOv
    /\ IdleMatch
    /\ IdleCmp
    /\ IdleSum
    /\ IdleAdd
    /\ IdleSom

\* assert n > 0
SgAssertFail ==
    /\ sg_pc = "start"
    /\ ~(sg_n > 0)
    /\ sg_pc' = "error"
    /\ UNCHANGED <<sg_chroms, sg_n, sg_minlen, segs, jobs, sg_j, splitlog, dealt>>
    /\ UNCHANGED <<ovvars, mvars, cvars, suvars, advars, sovars>>

\* read the table, keep the long enough chromosomes, sort
SgRead ==
    /\ sg_pc = "start"
    /\ sg_n > 0
    /\ segs' = SortSegs(ReadSegs(sg_chroms, 1, sg_minlen))
    /\ sg_pc' = "split"
    /\ UNCHANGED <<sg_chroms, sg_n, sg_minlen, jobs, sg_j, splitlog, dealt>>
    /\ UNCHANGED <<ovvars, mvars, cvars, suvars, advars, sovars>>

\* one iteration of: while n > len(segs)
SgBisect ==
    /\ sg_pc = "split"
    /\ sg_n > Len(segs)
    /\ segs # <<>>
    /\ LET bigseg == segs[Len(segs)]
           rest == SubSeq(segs, 1, Len(segs) - 1)
       IN  /\ segs' = SortSegs(Append(Append(rest, left(bigseg)), right(bigseg)))
           /\ splitlog' = Append(splitlog,
                  [popped |-> bigseg.length,
                   before |-> [i \in 1..Len(segs) |-> segs[i].length]])
    /\ UNCHANGED <<sg_pc, sg_chroms, sg_n, sg_minlen, jobs, sg_j, dealt>>
    /\ UNCHANGED <<ovvars, mvars, cvars, suvars, advars, sovars>>

\* segs.pop() on an empty list: IndexError
SgPopEmpty ==
    /\ sg_pc = "split"
    /\ sg_n > Len(segs)
    /\ segs = <<>>
    /\ sg_pc' = "error"
    /\ UNCHANGED <<sg_chroms, sg_n, sg_minlen, segs, jobs, sg_j, splitlog, dealt>>
    /\ UNCHANGED <<ovvars, mvars, cvars, suvars, advars, sovars>>

\* assert n <= len(segs); jobs = n empty lists
SgStartDeal ==
    /\ sg_pc = "split"
    /\ ~(sg_n > Len(segs))
    /\ jobs' = [i \in 1..sg_n |-> <<>>]
    /\ sg_j' = 0
    /\ sg_pc' = "deal"
    /\ UNCHANGED <<sg_chroms, sg_n, sg_minlen, segs, splitlog, dealt>>
    /\ UNCHANGED <<ovvars, mvars, cvars, suvars, advars, sovars>>

\* jobs[j].append(segs.pop()), j running over range(n) again and again
SgDeal ==
    /\ sg_pc = "deal"
    /\ Len(segs) > 0
    /\ LET seg == segs[Len(segs)]
       IN  /\ jobs' = [jobs EXCEPT ![sg_j + 1] = Append(@, seg)]
           /\ dealt' = Append(dealt, seg)
    /\ segs' = SubSeq(segs, 1, Len(segs) - 1)
    /\ sg_j' = (sg_j + 1) % sg_n
    /\ UNCHANGED <<sg_pc, sg_chroms, sg_n, sg_minlen, splitlog>>
    /\ UNCHANGED <<ovvars, mvars, cvars, suvars, advars, sovars>>

\* return jobs
SgReturn ==
    /\ sg_pc = "deal"
    /\ Len(segs) = 0
    /\ sg_pc' = "done"
    /\ UNCHANGED <<sg_chroms, sg_n, sg_minlen, segs, jobs, sg_j, splitlog, dealt>>
    /\ UNCHANGED <<ovvars, mvars, cvars, suvars, advars, sovars>>

NextSeg ==
    \/ SgAssertFail
    \/ SgRead
    \/ SgBisect
    \/ SgPopEmpty
    \/ SgStartDeal
    \/ SgDeal
    \/ SgReturn

\* split_genome is a sequential function: it always takes its next step
SpecSeg == InitSeg /\ [][NextSeg]_vars /\ WF_vars(NextSeg)

-----------------------------------------------------------------------------
(* Claims about split_genome *)

\* the chromosomes kept by split_genome
KeptChroms == {c \in 1..Len(sg_chroms) : sg_chroms[c] > sg_minlen}

\* all segments of all buckets
AllJobSegs == Flatten(jobs)

SegsOfChrom(c) == {i \in 1..Len(AllJobSegs) : AllJobSegs[i].chrom = c}

\* the segments of chromosome c tile [0, length): every base is in exactly one
\* segment, no segment leaves the chromosome, and the lengths sum to the length
Tiles(c) ==
    /\ \A i \in SegsOfChrom(c) :
          /\ 0 <= AllJobSegs[i].start
          /\ AllJobSegs[i].start <= AllJobSegs[i].end
          /\ AllJobSegs[i].end <= sg_chroms[c]
          /\ AllJobSegs[i].length = AllJobSegs[i].end - AllJobSegs[i].start
    /\ \A p \in 0..(sg_chroms[c] - 1) :
          Cardinality({i \in SegsOfChrom(c) :
              AllJobSegs[i].start <= p /\ p < AllJobSegs[i].end}) = 1
    /\ SeqSum([i \in 1..Len(AllJobSegs) |->
          IF AllJobSegs[i].chrom = c THEN AllJobSegs[i].length ELSE 0]) = sg_chroms[c]

\* C1: the segments returned by split_genome, grouped by chromosome, tile
\* [0, length) of every kept chromosome exactly (no gap, no overlap, no segment
\* of another chromosome), for odd as well as even lengths at every bisection.
C1_TilesEveryChrom ==
    sg_pc = "done" =>
        /\ \A i \in 1..Len(AllJobSegs) : AllJobSegs[i].chrom \in KeptChroms
        /\ \A c \in KeptChroms : Tiles(c)

\* the number of chromosomes kept
KeptCount == Cardinality(KeptChroms)

\* the case of C9: n > 0 and at least one chromosome kept
SgCase == sg_n > 0 /\ KeptCount >= 1

SeqMax(s) == CHOOSE m \in {s[i] : i \in 1..Len(s)} : \A i \in 1..Len(s) : s[i] <= m

SgFinal ==
    /\ Len(jobs) = sg_n
    /\ Len(AllJobSegs) = Max2(sg_n, KeptCount)
    /\ Len(dealt) = Max2(sg_n, KeptCount)
    /\ Len(splitlog) = Max2(0, sg_n - KeptCount)
    /\ \A i \in 1..(Len(dealt) - 1) : dealt[i].length >= dealt[i + 1].length
    /\ \A i \in 0..(Len(dealt) - 1) :
          /\ (i \div sg_n) + 1 <= Len(jobs[(i % sg_n) + 1])
          /\ jobs[(i % sg_n) + 1][(i \div sg_n) + 1] = dealt[i + 1]
    /\ \A b \in 1..sg_n : Len(jobs[b]) >= 1
    /\ \A b, d \in 1..sg_n : Len(jobs[b]) - Len(jobs[d]) <= 1

SgSafe ==
    SgCase =>
        /\ sg_pc # "error"
        /\ \A i \in 1..Len(splitlog) : splitlog[i].popped = SeqMax(splitlog[i].before)
        /\ sg_pc = "done" => SgFinal

\* C9: for n > 0 and at least one chromosome kept, split_genome terminates and
\* returns n buckets holding max(n, k) segments, reached by max(0, n - k)
\* bisections, each of a segment of maximal length; the segments are dealt in
\* non-increasing order of length, the i-th to bucket i mod n, so every bucket
\* is non-empty and bucket sizes differ by at most one.
C9_SplitGenomeDeals == []SgSafe /\ (SgCase ~> (sg_pc = "done"))

\* a finished run over two kept chromosomes with two bisections, one of an odd length
C9_Witness ==
    /\ sg_pc = "done"
    /\ SgCase
    /\ KeptCount = 2
    /\ Len(splitlog) >= 2
    /\ \E i \in 1..Len(splitlog) : splitlog[i].popped % 2 = 1

-----------------------------------------------------------------------------
(* get_overlap_coords *)

MaxCoord == 2

\* interval coordinates, zero and negative ones included
Coords == (0 - MaxCoord)..MaxCoord

\* the mutant: overlap decided by the sum of the bounds
get_overlap_coords_sum(iv_a, iv_b) ==
    IF Max2(iv_a[1], iv_b[1]) + Min2(iv_a[2], iv_b[2]) > 0
    THEN <<Max2(iv_a[1], iv_b[1]), Min2(iv_a[2], iv_b[2])>>
    ELSE <<0, 0>>

\* get_overlap_coords(iv_a, iv_b); an interval is <<start, end>>
get_overlap_coords(iv_a, iv_b) ==
    IF Min2(iv_a[2], iv_b[2]) - Max2(iv_a[1], iv_b[1]) > 0
    THEN <<Max2(iv_a[1], iv_b[1]), Min2(iv_a[2], iv_b[2])>>
    ELSE <<0, 0>>

InitOv ==
    /\ ov_pc = "input"
    /\ ov_a \in Coords \X Coords
    /\ ov_b \in Coords \X Coords
    /\ ov_res = <<0, 0>>
    /\ ov_prev = <<0, 0>>
    /\ IdleSeg
    /\ IdleMatch
    /\ IdleCmp
    /\ IdleSum
    /\ IdleAdd
    /\ IdleSom

\* the call get_overlap_coords(iv_a, iv_b)
OvCall ==
    /\ ov_pc = "input"
    /\ ov_res' = get_overlap_coords(ov_a, ov_b)
    /\ ov_pc' = "done"
    /\ UNCHANGED <<ov_a, ov_b, ov_prev, sgvars, mvars, cvars, suvars, advars, sovars>>

\* the same call with the arguments given the other way round
OvSwap ==
    /\ ov_pc = "done"
    /\ ov_a' = ov_b
    /\ ov_b' = ov_a
    /\ ov_res' = get_overlap_coords(ov_b, ov_a)
    /\ ov_prev' = ov_res
    /\ ov_pc' = "swapped"
    /\ UNCHANGED <<sgvars, mvars, cvars, suvars, advars, sovars>>

NextOv ==
    \/ OvCall
    \/ OvSwap

SpecOv == InitOv /\ [][NextOv]_vars

\* the width of the true intersection of the two arguments
OvWidth == (IF ov_a[2] <= ov_b[2] THEN ov_a[2] ELSE ov_b[2])
           - (IF ov_a[1] >= ov_b[1] THEN ov_a[1] ELSE ov_b[1])

\* C7: get_overlap_coords(a, b) returns (0, 0) if and only if
\* min(a1, b1) - max(a0, b0) <= 0, otherwise exactly (max(a0, b0), min(a1, b1)),
\* also for zero and negative coordinates, and whatever the order of a and b.
C7_OverlapCoords ==
    /\ ov_pc \in {"done", "swapped"} =>
          /\ (ov_res = <<0, 0>>) <=> (OvWidth <= 0)
          /\ OvWidth > 0 =>
                ov_res = <<IF ov_a[1] >= ov_b[1] THEN ov_a[1] ELSE ov_b[1],
                           IF ov_a[2] <= ov_b[2] THEN ov_a[2] ELSE ov_b[2]>>
    /\ ov_pc = "swapped" => ov_res = ov_prev

\* an overlap of positive width that lies at negative coordinates, seen both ways round
C7_Witness ==
    /\ ov_pc = "swapped"
    /\ OvWidth > 0
    /\ ov_res[2] <= 0
    /\ ov_a # ov_b

-----------------------------------------------------------------------------
(* VCF records, as the program reads them (vcf._Record attributes) *)

MaxPos == 2

\* alleles are sequences of characters
Bases == {"A", "C", "G", "T", "N"}

\* allele shapes: REF, ALT (the list of alternate alleles, in file order) and
\* the type the record's is_snp / is_indel attributes report for them
Shapes ==
    { [REF |-> <<"A">>, ALT |-> << <<"G">> >>, is_snp |-> TRUE, is_indel |-> FALSE],
      [REF |-> <<"C">>, ALT |-> << <<"G">> >>, is_snp |-> TRUE, is_indel |-> FALSE],
      [REF |-> <<"A">>, ALT |-> << <<"G">>, <<"T">> >>, is_snp |-> TRUE, is_indel |-> FALSE],
      [REF |-> <<"A">>, ALT |-> << <<"T">>, <<"G">> >>, is_snp |-> TRUE, is_indel |-> FALSE],
      [REF |-> <<"A">>, ALT |-> << <<"A", "G">> >>, is_snp |-> FALSE, is_indel |-> TRUE],
      [REF |-> <<"A", "T">>, ALT |-> << <<"A">> >>, is_snp |-> FALSE, is_indel |-> TRUE],
      [REF |-> <<"A">>, ALT |-> << <<"A", "[", "p", "[">> >>, is_snp |-> FALSE, is_indel |-> FALSE],
      [REF |-> <<"A">>, ALT |-> << <<"]", "p", "]", "A">> >>, is_snp |-> FALSE, is_indel |-> FALSE],
      [REF |-> <<"A">>, ALT |-> << <<"<", "D", "U", "P", ">">> >>, is_snp |-> FALSE, is_indel |-> FALSE] }

\* a record: SVTYPE "None" is INFO without SVTYPE; CIPOS, CIEND and END are <<>>
\* when INFO does not hold them; FILTER is the list of failed filters; SS is the
\* INFO SS value ("None" when absent), SOMATIC the INFO flag, GTSS the SS
\* genotype fields of the samples that have one
MkRec(shape, chrom, pos, svtype, cipos, ciend, end, filter, ss, somatic, gtss) ==
    [CHROM |-> chrom, POS |-> pos, REF |-> shape.REF, ALT |-> shape.ALT,
     is_snp |-> shape.is_snp, is_indel |-> shape.is_indel,
     SVTYPE |-> svtype, CIPOS |-> cipos, CIEND |-> ciend, END |-> end,
     FILTER |-> filter, SS |-> ss, SOMATIC |-> somatic, GTSS |-> gtss]

\* rec.is_sv: INFO holds an SVTYPE
is_sv(rec) == rec.SVTYPE # "None"

\* rec.start and rec.end: the 0-based half-open range of the reference allele
RecStart(rec) == rec.POS - 1
RecEnd(rec) == rec.POS - 1 + Len(rec.REF)

Abs(x) == IF x < 0 THEN 0 - x ELSE x

-----------------------------------------------------------------------------
(* Interval utilities *)

\* the mutant: the confidence flanks taken without abs()
get_conf_interval_noabs(rec, w_indel) ==
    LET cipos_start == IF rec.CIPOS = <<>> THEN 0 ELSE rec.CIPOS[1]
        cipos_end == IF rec.CIPOS = <<>> THEN 0 ELSE rec.CIPOS[Len(rec.CIPOS)]
        ciend_end == IF rec.CIEND = <<>> THEN 0 ELSE rec.CIEND[Len(rec.CIEND)]
        end0 == IF rec.END # <<>> THEN rec.END[1] + ciend_end ELSE rec.POS + 1 + cipos_end
    IN  IF rec.is_indel
        THEN <<rec.POS - (cipos_start + w_indel), end0 + w_indel>>
        ELSE <<rec.POS - cipos_start, end0>>

\* get_conf_interval(rec, w_indel)
get_conf_interval(rec, w_indel) ==
    LET cipos_start == IF rec.CIPOS = <<>> THEN 0 ELSE Abs(rec.CIPOS[1])
        cipos_end == IF rec.CIPOS = <<>> THEN 0
                     ELSE IF Len(rec.CIPOS) = 2 THEN Abs(rec.CIPOS[2]) ELSE Abs(rec.CIPOS[1])
        ciend_end == IF rec.CIEND = <<>> THEN 0
                     ELSE IF Len(rec.CIEND) = 2 THEN Abs(rec.CIEND[2]) ELSE Abs(rec.CIEND[1])
        end0 == IF rec.END # <<>> THEN rec.END[1] + ciend_end ELSE rec.POS + 1 + cipos_end
    IN  IF rec.is_indel
        THEN <<rec.POS - (cipos_start + w_indel), end0 + w_indel>>
        ELSE <<rec.POS - cipos_start, end0>>

AssertionError == [ok |-> FALSE, num |-> 0, den |-> 0]

\* the mutant: the overlap normalised by the length of recA's interval alone
interval_score_lenA(recA, recB) ==
    LET iv_a == get_conf_interval(recA, 0)
        iv_b == get_conf_interval(recB, 0)
        ol_coords == get_overlap_coords(iv_a, iv_b)
        ol_width == ol_coords[2] - ol_coords[1]
        len_a == iv_a[2] - iv_a[1]
        len_b == iv_b[2] - iv_b[1]
    IN  IF ~(ol_width > 0) THEN AssertionError
        ELSE IF ~(len_a > 0) THEN AssertionError
        ELSE IF ~(len_b > 0) THEN AssertionError
        ELSE [ok |-> TRUE, num |-> 2 * ol_width, den |-> len_a + len_a]

\* Variant.interval_score of the pair (recA, recB): the quotient
\* float(2*ol_width)/float(len_a+len_b) as numerator and denominator
interval_score(recA, recB) ==
    LET iv_a == get_conf_interval(recA, 0)
        iv_b == get_conf_interval(recB, 0)
        ol_coords == get_overlap_coords(iv_a, iv_b)
        ol_width == ol_coords[2] - ol_coords[1]
        len_a == iv_a[2] - iv_a[1]
        len_b == iv_b[2] - iv_b[1]
    IN  IF ~(ol_width > 0) THEN AssertionError
        ELSE IF ~(len_a > 0) THEN AssertionError
        ELSE IF ~(len_b > 0) THEN AssertionError
        ELSE [ok |-> TRUE, num |-> 2 * ol_width, den |-> len_a + len_b]

-----------------------------------------------------------------------------
(* Matcher *)

\* orientSV(alt): the orientation of a breakend, or alt itself
orientSV(alt) ==
    IF Len(alt) >= 2 /\ alt[1] \in Bases /\ alt[2] = "["
        THEN [orient |-> "right_of_p_after_t", alt |-> <<>>]
    ELSE IF Len(alt) >= 2 /\ alt[1] \in Bases /\ alt[2] = "]"
        THEN [orient |-> "left_of_p_after_t", alt |-> <<>>]
    ELSE IF Len(alt) >= 1 /\ alt[1] = "]"
        THEN [orient |-> "left_of_p_before_t", alt |-> <<>>]
    ELSE IF Len(alt) >= 1 /\ alt[1] = "["
        THEN [orient |-> "right_of_p_before_t", alt |-> <<>>]
    ELSE [orient |-> "", alt |-> alt]

\* vcfIntervalMatch(recA, recB)
vcfIntervalMatch(recA, recB) ==
    LET iv_A == get_conf_interval(recA, 0)
        iv_B == get_conf_interval(recB, 0)
        ol == get_overlap_coords(iv_A, iv_B)
    IN  ol[1] + ol[2] > 0

\* the mutant: the SNV branch without the comparison of POS
vcfVariantMatch_nopos(recA, recB) ==
    \/ /\ recA.is_snp /\ recB.is_snp
       /\ recA.REF = recB.REF /\ recA.ALT = recB.ALT
    \/ /\ recA.is_indel /\ recB.is_indel
       /\ recA.REF = recB.REF /\ recA.ALT = recB.ALT
    \/ /\ is_sv(recA) /\ is_sv(recB)
       /\ recA.SVTYPE = recB.SVTYPE /\ recB.SVTYPE = "BND"
       /\ orientSV(recA.ALT[1]) = orientSV(recB.ALT[1])
       /\ vcfIntervalMatch(recA, recB)

\* vcfVariantMatch(recA, recB)
vcfVariantMatch(recA, recB) ==
    \/ /\ recA.is_snp /\ recB.is_snp
       /\ recA.POS = recB.POS /\ recA.REF = recB.REF /\ recA.ALT = recB.ALT
    \/ /\ recA.is_indel /\ recB.is_indel
       /\ recA.REF = recB.REF /\ recA.ALT = recB.ALT
    \/ /\ is_sv(recA) /\ is_sv(recB)
       /\ recA.SVTYPE = recB.SVTYPE /\ recB.SVTYPE = "BND"
       /\ orientSV(recA.ALT[1]) = orientSV(recB.ALT[1])
       /\ vcfIntervalMatch(recA, recB)

\* records that differ in type, alleles, SVTYPE, position and confidence flank
MatchRecs ==
    { MkRec(sh, "chr1", pos, sv, ci, <<>>, <<>>, <<>>, "None", FALSE, <<>>) :
        sh \in Shapes, pos \in 1..MaxPos, sv \in {"None", "BND", "DEL"},
        ci \in {<<>>, <<1>>} }

\* breakend records that differ in position, confidence flanks and END
ScoreRecs ==
    { MkRec([REF |-> <<"A">>, ALT |-> << <<"A", "[", "p", "[">> >>,
             is_snp |-> FALSE, is_indel |-> FALSE],
            "chr1", pos, "BND", ci, ce, en, <<>>, "None", FALSE, <<>>) :
        pos \in 1..MaxPos, ci \in {<<>>, <<1>>, <<0 - 2, 1>>},
        ce \in {<<>>, <<0 - 1>>}, en \in {<<>>, <<1>>, <<3>>} }

InitMatch ==
    /\ m_pc = "input"
    /\ \/ /\ m_recA \in MatchRecs
          /\ m_recB \in MatchRecs
       \/ /\ m_recA \in ScoreRecs
          /\ m_recB \in ScoreRecs
    /\ m_res = FALSE
    /\ m_score = AssertionError
    /\ IdleSeg
    /\ IdleOv
    /\ IdleCmp
    /\ IdleSum
    /\ IdleAdd
    /\ IdleSom

\* the call vcfVariantMatch(recA, recB)
MCallMatch ==
    /\ m_pc = "input"
    /\ m_res' = vcfVariantMatch(m_recA, m_recB)
    /\ m_pc' = "matched"
    /\ UNCHANGED <<m_recA, m_recB, m_score, sgvars, ovvars, cvars, suvars, advars, sovars>>

\* the call Variant(recA, recB).interval_score()
MCallScore ==
    /\ m_pc = "input"
    /\ m_score' = interval_score(m_recA, m_recB)
    /\ m_pc' = "scored"
    /\ UNCHANGED <<m_recA, m_recB, m_res, sgvars, ovvars, cvars, suvars, advars, sovars>>

NextMatch ==
    \/ MCallMatch
    \/ MCallScore

SpecMatch == InitMatch /\ [][NextMatch]_vars

-----------------------------------------------------------------------------
(* Claims about the matcher and the interval score *)

AltSet(rec) == {rec.ALT[i] : i \in 1..Len(rec.ALT)}

\* recA is an SNV and neither an indel nor a structural variant
PlainSnv(rec) == rec.is_snp /\ ~rec.is_indel /\ ~is_sv(rec)

\* a record in breakend notation: its first alternate allele holds a bracket
BreakendAlt(rec) == \E i \in 1..Len(rec.ALT[1]) : rec.ALT[1][i] \in {"[", "]"}

\* C5 as stated: for an SNV recA (no indel, no SV), vcfVariantMatch(recA, recB)
\* is true if and only if recB is an SNV with the same position, the same
\* reference allele and the same alternate-allele set.
C5_SnvMatchIffSameAltSet ==
    (m_pc = "matched" /\ PlainSnv(m_recA)) =>
        (m_res <=> /\ m_recB.is_snp
                   /\ m_recB.POS = m_recA.POS
                   /\ m_recB.REF = m_recA.REF
                   /\ AltSet(m_recB) = AltSet(m_recA))

\* C5 as amended: for an SNV recA (no indel, no SV), vcfVariantMatch(recA, recB)
\* is true if and only if recB is an SNV with the same position, the same
\* reference allele and the same list of alternate alleles, in the same order;
\* hence an SNV matches no indel, no breakend record, and no SNV with the same
\* alleles one base away.
C5_SnvMatchIffSameAltList ==
    (m_pc = "matched" /\ PlainSnv(m_recA)) =>
        /\ m_res <=> /\ m_recB.is_snp
                     /\ m_recB.POS = m_recA.POS
                     /\ m_recB.REF = m_recA.REF
                     /\ Len(m_recB.ALT) = Len(m_recA.ALT)
                     /\ \A i \in 1..Len(m_recA.ALT) : m_recB.ALT[i] = m_recA.ALT[i]
        /\ m_recB.is_indel => ~m_res
        /\ BreakendAlt(m_recB) => ~m_res
        /\ (m_recB.POS - m_recA.POS \in {1, 0 - 1}) => ~m_res

\* an SNV with two alternate alleles matched by an SNV that is also flagged
\* as a structural variant
C5_Witness ==
    /\ m_pc = "matched"
    /\ PlainSnv(m_recA)
    /\ Len(m_recA.ALT) = 2
    /\ is_sv(m_recB)
    /\ m_res

\* C8: when both confidence intervals have positive length and overlap with
\* positive width, interval_score is the same with recA and recB swapped,
\* s = 2*overlap_width/(lenA + lenB) satisfies 0 < s <= 1, and s = 1 exactly
\* when the two intervals are identical; otherwise the call fails an assertion.
C8_IntervalScore ==
    m_pc = "scored" =>
        LET iv_a == get_conf_interval(m_recA, 0)
            iv_b == get_conf_interval(m_recB, 0)
            lo == IF iv_a[1] >= iv_b[1] THEN iv_a[1] ELSE iv_b[1]
            hi == IF iv_a[2] <= iv_b[2] THEN iv_a[2] ELSE iv_b[2]
        IN  IF iv_a[2] - iv_a[1] > 0 /\ iv_b[2] - iv_b[1] > 0 /\ hi - lo > 0
            THEN /\ m_score.ok
                 /\ m_score = interval_score(m_recB, m_recA)
                 /\ m_score.num = 2 * (hi - lo)
                 /\ m_score.den = (iv_a[2] - iv_a[1]) + (iv_b[2] - iv_b[1])
                 /\ 0 < m_score.num
                 /\ m_score.num <= m_score.den
                 /\ (m_score.num = m_score.den) <=> (iv_a = iv_b)
            ELSE m_score = AssertionError

\* a score below 1 of two different records whose intervals overlap in part
C8_Witness ==
    /\ m_pc = "scored"
    /\ m_score.ok
    /\ m_score.num < m_score.den
    /\ get_conf_interval(m_recA, 0)[1] < get_conf_interval(m_recB, 0)[1]
    /\ get_conf_interval(m_recA, 0)[2] < get_conf_interval(m_recB, 0)[2]

-----------------------------------------------------------------------------
(* compareVCFs: one directional comparison, source --> target *)

MaxRecs == 2

\* parameters w_indel and w_sv of compareVCFs (parseVCFs passes neither)
w_indel == 0
w_sv == 1000

SnvShape == [REF |-> <<"A">>, ALT |-> << <<"G">> >>, is_snp |-> TRUE, is_indel |-> FALSE]
DelShape == [REF |-> <<"A", "T">>, ALT |-> << <<"A">> >>, is_snp |-> FALSE, is_indel |-> TRUE]
BndShape == [REF |-> <<"A">>, ALT |-> << <<"A", "[", "p", "[">> >>, is_snp |-> FALSE, is_indel |-> FALSE]
DupShape == [REF |-> <<"A">>, ALT |-> << <<"<", "D", "U", "P", ">">> >>, is_snp |-> FALSE, is_indel |-> FALSE]

\* the records a source collection is made of: an SNV, deletions at two
\* positions, a breakend, and a record of an unsupported type
CmpRecs ==
    { MkRec(SnvShape, "chr1", 3, "None", <<>>, <<>>, <<>>, <<>>, "None", FALSE, <<>>),
      MkRec(DelShape, "chr1", 2, "None", <<>>, <<>>, <<>>, <<>>, "None", FALSE, <<>>),
      MkRec(DelShape, "chr1", 3, "None", <<>>, <<>>, <<>>, <<>>, "None", FALSE, <<>>),
      MkRec(BndShape, "chr1", 2, "BND", <<>>, <<>>, <<>>, <<>>, "None", FALSE, <<>>),
      MkRec(DupShape, "chr1", 3, "DUP", <<>>, <<>>, <<>>, <<>>, "None", FALSE, <<>>) }

\* the records a target collection is made of: those an SNV or an indel can match
TgtRecs == {r \in CmpRecs : r.is_snp \/ r.is_indel}

\* a tabix-indexed file is sorted by chromosome and position
RecLeq(a, b) == a.CHROM = b.CHROM /\ a.POS <= b.POS

Collections(recs) ==
    { c \in SeqsUpTo(recs, MaxRecs) : \A i \in 1..(Len(c) - 1) : RecLeq(c[i], c[i + 1]) }

NoMask == [present |-> FALSE, contigs |-> {}, hits |-> {}]

\* mask: None, or a tabix file with its contigs and the <<chrom, pos>> for
\* which mask.fetch(chrom, pos, pos+1) yields an interval
Masks ==
    { NoMask,
      [present |-> TRUE, contigs |-> {"chr2"}, hits |-> {}],
      [present |-> TRUE, contigs |-> {"chr1", "chr2"}, hits |-> {<<"chr1", 3>>}] }

NoTruth == [present |-> FALSE, recs |-> <<>>]

\* truth: None, or a collection
Truths ==
    { NoTruth,
      [present |-> TRUE,
       recs |-> << MkRec(SnvShape, "chr1", 3, "None", <<>>, <<>>, <<>>, <<>>, "None", FALSE, <<>>),
                   MkRec(DelShape, "chr1", 3, "None", <<>>, <<>>, <<>>, <<>>, "None", FALSE, <<>>) >>] }

\* fetch(chrom, start, end) of a tabix-indexed file: the indices, in file order,
\* of the records of chrom that overlap the 0-based half-open range [start, end)
FetchIdx(coll, chrom, start, end) ==
    LET hit(i) == /\ coll[i].CHROM = chrom
                  /\ start < end
                  /\ RecStart(coll[i]) < end
                  /\ RecEnd(coll[i]) > start
        F[i \in 0..Len(coll)] ==
            IF i = 0 THEN <<>>
            ELSE IF hit(i) THEN Append(F[i - 1], i) ELSE F[i - 1]
    IN  F[Len(coll)]

\* the mutant: only the chromosome is tested
Masked_contigs(mask, rec) ==
    /\ mask.present
    /\ rec.CHROM \notin mask.contigs

\* the mask test of compareVCFs: the chromosome is not in mask.contigs, or
\* mask.fetch(CHROM, POS, POS+1) yields an interval
Masked(mask, rec) ==
    /\ mask.present
    /\ \/ rec.CHROM \notin mask.contigs
       \/ <<rec.CHROM, rec.POS>> \in mask.hits

\* the type compareVCFs gives a source record ("None": left unset; the test
\* recA.ALT == 'CNV' compares a list with a string and never holds)
VType(recA) ==
    IF recA.is_snp THEN "SNV"
    ELSE IF recA.is_indel THEN "INDEL"
    ELSE IF is_sv(recA) /\ recA.SVTYPE = "BND" THEN "SV"
    ELSE "None"

Widen(vtype) == IF vtype = "INDEL" THEN w_indel ELSE IF vtype = "SV" THEN w_sv ELSE 0

WStart(recA, w) == IF RecStart(recA) - w < 1 THEN 1 ELSE RecStart(recA) - w
WEnd(recA, w) == RecEnd(recA) + w

\* sv_uid(rec): CHROM, POS, ID, REF, ALT, QUAL, FILTER, INFO joined (ID and QUAL
\* are the same for all records of the model)
sv_uid(rec) ==
    <<rec.CHROM, rec.POS, rec.REF, rec.ALT, rec.FILTER,
      rec.SVTYPE, rec.CIPOS, rec.CIEND, rec.END, rec.SS, rec.SOMATIC>>

\* Variant(recA, None): recB and recT are <<>> (None) or hold one record;
\* ia, ib and altmatch name records by their place in the source and the target
Variant(ia, recA) ==
    [ia |-> ia, recA |-> recA, ib |-> 0, recB |-> <<>>, recT |-> <<>>, altmatch |-> <<>>]

\* the mutant: the check of used_B_interval left out
BindStep_nocheck(st, vtype, recA, t, recB) ==
    IF ~vcfVariantMatch(recA, recB) THEN st
    ELSE IF st.match
         THEN [st EXCEPT !.variant.altmatch = Append(@, t)]
         ELSE [st EXCEPT !.variant.ib = t, !.variant.recB = <<recB>>,
                         !.used = @ \cup {sv_uid(recB)}, !.match = TRUE]

\* the body of the loop over the candidates, for candidate recB = target[t]
BindStep(st, vtype, recA, t, recB) ==
    IF ~vcfVariantMatch(recA, recB) THEN st
    ELSE IF st.match
         THEN [st EXCEPT !.variant.altmatch = Append(@, t)]
         ELSE IF vtype \in {"INDEL", "SV", "CNV"} /\ sv_uid(recB) \in st.used
              THEN [st EXCEPT !.variant.altmatch = Append(@, t)]
              ELSE [st EXCEPT !.variant.ib = t, !.variant.recB = <<recB>>,
                              !.used = @ \cup {sv_uid(recB)}, !.match = TRUE]

\* the loop over the candidates; with kfail >= 0 the fetch raises once kfail
\* candidates have been yielded (0: at the call), and the except clause ends it
RECURSIVE BindLoop(_, _, _, _, _, _, _)
BindLoop(st, vtype, recA, target, cands, j, kfail) ==
    IF j > Len(cands) \/ j - 1 = kfail THEN st
    ELSE BindLoop(BindStep(st, vtype, recA, cands[j], target[cands[j]]),
                  vtype, recA, target, cands, j + 1, kfail)

\* the loop over the truth records: the last matching one is kept
RECURSIVE TruthLoop(_, _, _, _, _)
TruthLoop(variant, truthrecs, cands, j, kfail) ==
    IF j > Len(cands) \/ j - 1 = kfail THEN variant
    ELSE TruthLoop(IF vcfVariantMatch(variant.recA, truthrecs[cands[j]])
                   THEN [variant EXCEPT !.recT = <<truthrecs[cands[j]]>>]
                   ELSE variant,
                   truthrecs, cands, j + 1, kfail)

\* where a fetch over cands may raise: nowhere (-1), at the call (0), or after
\* some candidates
FailPoints(cands) == {0 - 1} \cup 0..Len(cands)

InitCmp ==
    /\ c_pc = "loop"
    /\ c_src \in Collections(CmpRecs)
    /\ c_tgt \in Collections(TgtRecs)
    /\ c_mask \in Masks
    /\ c_truth \in Truths
    /\ c_i = 0
    /\ c_nskip = 0
    /\ c_cmp = [SNV |-> <<>>, INDEL |-> <<>>]
    /\ c_used = {}
    /\ c_faillog = {}
    /\ IdleSeg
    /\ IdleOv
    /\ IdleMatch
    /\ IdleSum
    /\ IdleAdd
    /\ IdleSom

\* a source record the mask excludes: nskip += 1; continue
CmpSkipMasked ==
    /\ c_pc = "loop"
    /\ c_i < Len(c_src)
    /\ Masked(c_mask, c_src[c_i + 1])
    /\ c_i' = c_i + 1
    /\ c_nskip' = c_nskip + 1
    /\ UNCHANGED <<c_pc, c_src, c_tgt, c_mask, c_truth, c_cmp, c_used, c_faillog>>
    /\ UNCHANGED <<sgvars, ovvars, mvars, suvars, advars, sovars>>

\* a source record of no known type: nothing is compared, nothing appended
CmpUnknownType ==
    /\ c_pc = "loop"
    /\ c_i < Len(c_src)
    /\ ~Masked(c_mask, c_src[c_i + 1])
    /\ VType(c_src[c_i + 1]) \notin {"SNV", "SV", "INDEL"}
    /\ c_i' = c_i + 1
    /\ UNCHANGED <<c_pc, c_src, c_tgt, c_mask, c_truth, c_nskip, c_cmp, c_used, c_faillog>>
    /\ UNCHANGED <<sgvars, ovvars, mvars, suvars, advars, sovars>>

\* a source record of a known type: match it against the target and the truth,
\* append the pair to cmp.vartype[vtype] (a KeyError for 'SV', which
\* Comparison.__init__ does not create, and nothing catches it)
CmpRecord ==
    /\ c_pc = "loop"
    /\ c_i < Len(c_src)
    /\ ~Masked(c_mask, c_src[c_i + 1])
    /\ VType(c_src[c_i + 1]) \in {"SNV", "SV", "INDEL"}
    /\ LET recA == c_src[c_i + 1]
           vtype == VType(recA)
           w == Widen(vtype)
           cands == FetchIdx(c_tgt, recA.CHROM, WStart(recA, w), WEnd(recA, w))
           tcands == FetchIdx(c_truth.recs, recA.CHROM, WStart(recA, w), WEnd(recA, w))
       IN  \E kfail \in FailPoints(cands), ktfail \in FailPoints(tcands) :
             /\ ktfail >= 0 => c_truth.present
             /\ LET st == BindLoop([variant |-> Variant(c_i + 1, recA), used |-> c_used,
                                    match |-> FALSE],
                                   vtype, recA, c_tgt, cands, 1, kfail)
                    variant == IF c_truth.present
                               THEN TruthLoop(st.variant, c_truth.recs, tcands, 1, ktfail)
                               ELSE st.variant
                IN  /\ c_used' = st.used
                    /\ c_faillog' = IF kfail >= 0
                                    THEN c_faillog \cup {[ia |-> c_i + 1, k |-> kfail]}
                                    ELSE c_faillog
                    /\ IF vtype \in DOMAIN c_cmp
                       THEN /\ c_cmp' = [c_cmp EXCEPT ![vtype] = Append(@, variant)]
                            /\ c_pc' = c_pc
                       ELSE /\ c_cmp' = c_cmp
                            /\ c_pc' = "error"
    /\ c_i' = c_i + 1
    /\ UNCHANGED <<c_src, c_tgt, c_mask, c_truth, c_nskip>>
    /\ UNCHANGED <<sgvars, ovvars, mvars, suvars, advars, sovars>>

\* the traversal is over: return cmp
CmpReturn ==
    /\ c_pc = "loop"
    /\ c_i = Len(c_src)
    /\ c_pc' = "done"
    /\ UNCHANGED <<c_src, c_tgt, c_mask, c_truth, c_i, c_nskip, c_cmp, c_used, c_faillog>>
    /\ UNCHANGED <<sgvars, ovvars, mvars, suvars, advars, sovars>>

NextCmp ==
    \/ CmpSkipMasked
    \/ CmpUnknownType
    \/ CmpRecord
    \/ CmpReturn

SpecCmp == InitCmp /\ [][NextCmp]_vars

-----------------------------------------------------------------------------
(* Claims about compareVCFs *)

\* the pairs of the Comparison, as <<bucket, place>>
PairIds == UNION {{<<vt, i>> : i \in 1..Len(c_cmp[vt])} : vt \in {"SNV", "INDEL"}}

PairAt(id) == c_cmp[id[1]][id[2]]

\* a masked record: its chromosome is absent from the mask, or its position
\* lies inside a masked interval
MaskedRec(rec) ==
    \/ rec.CHROM \notin c_mask.contigs
    \/ \E h \in c_mask.hits : h[1] = rec.CHROM /\ h[2] = rec.POS

\* C4 as stated: with a mask, a masked record (chromosome absent from the mask
\* or position in a masked interval) is the recA of no pair when its collection
\* is the source and the recB of no pair when its collection is the target,
\* for SNV and for indel records.
C4_MaskedInNoPair ==
    c_mask.present =>
        \A id \in PairIds :
            /\ ~MaskedRec(PairAt(id).recA)
            /\ PairAt(id).ib # 0 => ~MaskedRec(c_tgt[PairAt(id).ib])

\* C4 as amended: with a mask, a masked record is the recA of no pair when its
\* collection is the source (SNV and indel alike); when its collection is the
\* target, a masked SNV record, and any record whose chromosome is absent from
\* the mask, is the recB of no pair, while an indel masked by its position can
\* be the recB of a pair: that of an unmasked source indel at another position.
C4_MaskedSourceSkipped ==
    c_mask.present =>
        \A id \in PairIds :
            /\ ~MaskedRec(PairAt(id).recA)
            /\ (PairAt(id).ib # 0 /\ MaskedRec(c_tgt[PairAt(id).ib])) =>
                  /\ id[1] = "INDEL"
                  /\ c_tgt[PairAt(id).ib].is_indel
                  /\ c_tgt[PairAt(id).ib].CHROM \in c_mask.contigs
                  /\ c_tgt[PairAt(id).ib].POS # PairAt(id).recA.POS

\* a finished run with a mask in which a masked source record was skipped, the
\* target holds a masked SNV, and an unmasked record was matched
C4_Witness ==
    /\ c_pc = "done"
    /\ c_mask.present
    /\ c_nskip >= 1
    /\ \E t \in 1..Len(c_tgt) : c_tgt[t].is_snp /\ MaskedRec(c_tgt[t])
    /\ \E id \in PairIds : PairAt(id).ib # 0

\* C6: if the fetch from the target fails for a source record (at the call or
\* while the candidates are iterated), compareVCFs does not abort, the record
\* yields exactly one pair in its bucket, and that pair is unmatched.
C6_FailedFetchUnmatched ==
    \A f \in c_faillog :
        /\ c_pc # "error"
        /\ Cardinality({id \in PairIds : PairAt(id).ia = f.ia}) = 1
        /\ \A id \in PairIds :
              PairAt(id).ia = f.ia =>
                 /\ id[1] = VType(c_src[f.ia])
                 /\ PairAt(id).ib = 0
                 /\ PairAt(id).recB = <<>>

\* C10 as stated: no target record is the recB of two different pairs of one
\* run, whatever the variant type.
C10_NoTargetBoundTwice ==
    \A id1, id2 \in PairIds :
        (id1 # id2 /\ PairAt(id1).ib # 0) => PairAt(id1).ib # PairAt(id2).ib

\* C10 as amended: no target record is the recB of two different indel pairs
\* of one run: a target record already bound as recB of an earlier indel pair
\* (one with the same sv_uid) is only appended to altmatch of later pairs.
\* SNV pairs are not covered: source SNV records equal in position and
\* alleles all bind the same target record.
C10_NoIndelTargetBoundTwice ==
    \A i, j \in 1..Len(c_cmp.INDEL) :
        (i # j /\ c_cmp.INDEL[i].ib # 0 /\ c_cmp.INDEL[j].ib # 0) =>
            /\ c_cmp.INDEL[i].ib # c_cmp.INDEL[j].ib
            /\ sv_uid(c_tgt[c_cmp.INDEL[i].ib]) # sv_uid(c_tgt[c_cmp.INDEL[j].ib])

\* two source indels that match the same target record: the first binds it,
\* the second holds it in altmatch and stays unmatched
C10_Witness ==
    /\ Len(c_cmp.INDEL) = 2
    /\ c_cmp.INDEL[1].ib # 0
    /\ c_cmp.INDEL[2].ib = 0
    /\ c_cmp.INDEL[2].altmatch = <<c_cmp.INDEL[1].ib>>

-----------------------------------------------------------------------------
(* Variant: the predicates of a pair *)

\* str.upper() on the values INFO SS takes
upper(s) ==
    CASE s = "somatic" -> "SOMATIC"
      [] s = "loh" -> "LOH"
      [] OTHER -> s

\* Variant.somatic_in_format: some sample's SS is '2' or 2 (GTSS holds the
\* samples' SS values; "2" stands for both spellings)
somatic_in_format(rec) == \E i \in 1..Len(rec.GTSS) : rec.GTSS[i] = "2"

\* Variant.matched
matched(v) == v.recB # <<>>

\* Variant.is_true
is_true(v) == v.recT # <<>>

\* Variant.recA_somatic
recA_somatic(v) ==
    IF upper(v.recA.SS) \in {"SOMATIC", "2"} THEN TRUE
    ELSE IF v.recA.SOMATIC
         THEN (IF upper(v.recA.SS) = "LOH" THEN FALSE ELSE TRUE)
         ELSE somatic_in_format(v.recA)

\* Variant.recB_somatic
recB_somatic(v) ==
    IF ~matched(v) THEN FALSE
    ELSE IF upper(v.recB[1].SS) \in {"SOMATIC", "2"} THEN TRUE
    ELSE IF v.recB[1].SOMATIC THEN TRUE
    ELSE somatic_in_format(v.recB[1])

\* Variant.recA_pass
recA_pass(v) == v.recA.FILTER = <<>>

\* Variant.recB_pass
recB_pass(v) ==
    IF v.recB = <<>> THEN FALSE ELSE v.recB[1].FILTER = <<>>

-----------------------------------------------------------------------------
(* Comparison.build_comparator, get_sumheader, Summary *)

\* the mutant: the branch for truth=False also tests is_true
build_comparator_exact(cmp, vtype, p_matched, p_passA, p_passB, p_somA, p_somB, p_truth) ==
    Cardinality({i \in 1..Len(cmp[vtype]) :
        LET y == cmp[vtype][i] IN
            /\ matched(y) = p_matched
            /\ recA_pass(y) = p_passA
            /\ recB_pass(y) = p_passB
            /\ recA_somatic(y) = p_somA
            /\ recB_somatic(y) = p_somB
            /\ is_true(y) = p_truth})

\* build_comparator(...)(vtype): the number of pairs of cmp.vartype[vtype]
\* the count function accepts; is_true is tested in the branch for truth only
build_comparator(cmp, vtype, p_matched, p_passA, p_passB, p_somA, p_somB, p_truth) ==
    Cardinality({i \in 1..Len(cmp[vtype]) :
        LET y == cmp[vtype][i] IN
            /\ matched(y) = p_matched
            /\ recA_pass(y) = p_passA
            /\ recB_pass(y) = p_passB
            /\ recA_somatic(y) = p_somA
            /\ recB_somatic(y) = p_somB
            /\ (p_truth => is_true(y) = p_truth)})

PassWord(b) == IF b THEN "pass" ELSE "fail"
SomWord(b) == IF b THEN "somatic" ELSE "germline"
TruthWord(b) == IF b THEN "truth" ELSE "overall"

\* get_sumheader: the matched categories, each the words of its name (joined
\* by '_' in the source) with its vector [True,passA,passB,somA,somB,truth]
mhnames ==
    {[name |-> <<"matched", PassWord(passA), PassWord(passB),
                 SomWord(somA), SomWord(somB), TruthWord(truth)>>,
      bools |-> <<TRUE, passA, passB, somA, somB, truth>>] :
        truth \in BOOLEAN, passA \in BOOLEAN, passB \in BOOLEAN,
        somA \in BOOLEAN, somB \in BOOLEAN}

\* get_sumheader: the unmatched categories with their vector
\* [False,passA,somA,truth]
uhnames ==
    {[name |-> <<"unmatched", PassWord(passA), SomWord(somA), TruthWord(truth)>>,
      bools |-> <<FALSE, passA, somA, truth>>] :
        truth \in BOOLEAN, passA \in BOOLEAN, somA \in BOOLEAN}

MatNames == {c.name : c \in mhnames}
UnmNames == {<<prefix>> \o c.name : prefix \in {"A_", "B_"}, c \in uhnames}

MatBools(n) == (CHOOSE c \in mhnames : c.name = n).bools
UnmBools(n) == (CHOOSE c \in uhnames : c.name = Tail(n)).bools

\* Summary.__init__: every counter 0, info['vartype'] None
Summary ==
    [info |-> [vartype |-> "None"],
     unm_cats |-> [n \in UnmNames |-> 0],
     mat_cats |-> [n \in MatNames |-> 0]]

\* the mutant: the unmatched counters are left out of the merge
add_matched_only(self, other) ==
    [self EXCEPT
        !.mat_cats = [n \in DOMAIN self.mat_cats |->
                        IF n \in DOMAIN other.mat_cats
                        THEN self.mat_cats[n] + other.mat_cats[n]
                        ELSE self.mat_cats[n]]]

\* Summary.add past its assertion: every counter of other is added to self's
add(self, other) ==
    [self EXCEPT
        !.mat_cats = [n \in DOMAIN self.mat_cats |->
                        IF n \in DOMAIN other.mat_cats
                        THEN self.mat_cats[n] + other.mat_cats[n]
                        ELSE self.mat_cats[n]],
        !.unm_cats = [n \in DOMAIN self.unm_cats |->
                        IF n \in DOMAIN other.unm_cats
                        THEN self.unm_cats[n] + other.unm_cats[n]
                        ELSE self.unm_cats[n]]]

\* the mutant: the B_ counters taken from the A->B comparison
SumSegment_AB(sm, vtype, compAB, compBA) ==
    [sm EXCEPT
        !.unm_cats = [n \in DOMAIN sm.unm_cats |->
            LET b == UnmBools(n) IN
                sm.unm_cats[n]
                + build_comparator(compAB, vtype, b[1], b[2], FALSE, b[3], FALSE, b[4])],
        !.mat_cats = [n \in DOMAIN sm.mat_cats |->
            LET b == MatBools(n) IN
                sm.mat_cats[n]
                + build_comparator(compAB, vtype, b[1], b[2], b[3], b[4], b[5], b[6])]]

\* summary: the body of the loop over the segments, for one pair of
\* comparisons compAB, compBA
SumSegment(sm, vtype, compAB, compBA) ==
    [sm EXCEPT
        !.unm_cats = [n \in DOMAIN sm.unm_cats |->
            LET b == UnmBools(n) IN
                sm.unm_cats[n]
                + build_comparator(IF Head(n) = "A_" THEN compAB ELSE compBA,
                                   vtype, b[1], b[2], FALSE, b[3], FALSE, b[4])],
        !.mat_cats = [n \in DOMAIN sm.mat_cats |->
            LET b == MatBools(n) IN
                sm.mat_cats[n]
                + build_comparator(compAB, vtype, b[1], b[2], b[3], b[4], b[5], b[6])]]


-----------------------------------------------------------------------------
(* summary *)

MaxPairs == 2

\* records of the summary's inputs: an SNV or a deletion with the given
\* FILTER, INFO SS, INFO SOMATIC and sample SS values
SumRec(shape, filter, ss, somatic, gtss) ==
    MkRec(shape, "chr1", 3, "None", <<>>, <<>>, <<>>, filter, ss, somatic, gtss)

PassGermline == SumRec(SnvShape, <<>>, "None", FALSE, <<>>)
FailSomatic == SumRec(SnvShape, <<"q10">>, "2", FALSE, <<>>)
FailLoh == SumRec(SnvShape, <<"q10">>, "loh", TRUE, <<>>)
PassFormat == SumRec(DelShape, <<>>, "None", FALSE, <<"0", "2">>)

\* a pair as compareVCFs leaves it: recA, and recB and recT bound or not
SuPair(recA, recB, recT) ==
    [Variant(0, recA) EXCEPT !.recB = recB, !.recT = recT]

\* the pairs of an A->B comparison
ABPairs ==
    {SuPair(PassGermline, b, <<>>) : b \in {<<>>, <<FailLoh>>}}
    \cup {SuPair(FailSomatic, <<>>, <<>>),
          SuPair(PassGermline, <<>>, <<PassGermline>>),
          SuPair(FailSomatic, <<PassGermline>>, <<FailSomatic>>)}

\* the pairs of a B->A comparison
BAPairs ==
    {SuPair(FailLoh, <<>>, <<FailLoh>>),
     SuPair(PassGermline, <<PassGermline>>, <<>>)}

IndelPair == SuPair(PassFormat, <<>>, <<>>)

\* Comparison objects: a list of pairs for 'SNV' and one for 'INDEL'
FirstAB ==
    {[SNV |-> s, INDEL |-> i] :
        s \in SeqsUpTo(ABPairs, MaxPairs), i \in {<<>>, <<IndelPair>>}}
FirstBA ==
    {[SNV |-> s, INDEL |-> <<>>] : s \in SeqsUpTo(BAPairs, MaxPairs)}
MoreAB ==
    {[SNV |-> <<SuPair(FailSomatic, <<PassGermline>>, <<FailSomatic>>)>>, INDEL |-> <<>>],
     [SNV |-> <<>>, INDEL |-> <<IndelPair, SuPair(PassFormat, <<PassFormat>>, <<PassFormat>>)>>]}
MoreBA ==
    {[SNV |-> <<SuPair(PassGermline, <<>>, <<>>)>>, INDEL |-> <<IndelPair>>]}

\* the lists of segment comparisons: one segment, or two
CompLists(first, more) ==
    {<<c>> : c \in first} \cup {<<c, d>> : c \in first, d \in more}

InitSum ==
    /\ su_pc = "types"
    /\ su_AB \in CompLists(FirstAB, MoreAB)
    /\ su_BA \in CompLists(FirstBA, MoreBA)
    /\ su_s = <<>>
    /\ su_vtype = ""
    /\ su_k = 0
    /\ su_nshared = <<0, 0>>
    /\ su_warned = {}
    /\ IdleSeg
    /\ IdleOv
    /\ IdleMatch
    /\ IdleCmp
    /\ IdleAdd
    /\ IdleSom

\* izip(compAB_list, compBA_list) stops with the shorter list
SuSegments == Min2(Len(su_AB), Len(su_BA))

\* the head of the loop over compAB_list[0].vartype.keys(): s[vtype] is a new
\* Summary of that type
SuStartType ==
    /\ su_pc = "types"
    /\ \E vtype \in DOMAIN su_AB[1] \ DOMAIN su_s :
        /\ vtype \in DOMAIN su_BA[1]
        /\ su_s' = [t \in DOMAIN su_s \cup {vtype} |->
                        IF t = vtype THEN [Summary EXCEPT !.info.vartype = vtype]
                        ELSE su_s[t]]
        /\ su_vtype' = vtype
    /\ su_k' = 0
    /\ su_pc' = "segments"
    /\ UNCHANGED <<su_AB, su_BA, su_nshared, su_warned>>
    /\ UNCHANGED <<sgvars, ovvars, mvars, cvars, advars, sovars>>

\* one turn of the loop over the segments
SuSegment ==
    /\ su_pc = "segments"
    /\ su_k < SuSegments
    /\ su_s' = [su_s EXCEPT ![su_vtype] =
                    SumSegment(su_s[su_vtype], su_vtype, su_AB[su_k + 1], su_BA[su_k + 1])]
    /\ su_k' = su_k + 1
    /\ su_pc' = IF su_k + 1 = SuSegments THEN "types" ELSE "segments"
    /\ UNCHANGED <<su_AB, su_BA, su_vtype, su_nshared, su_warned>>
    /\ UNCHANGED <<sgvars, ovvars, mvars, cvars, advars, sovars>>

\* after the last type: the loop of the asymmetry warning, and the return
SuReturn ==
    /\ su_pc = "types"
    /\ DOMAIN su_s = DOMAIN su_AB[1]
    /\ su_warned' = IF su_nshared[1] # su_nshared[2] THEN DOMAIN su_s ELSE {}
    /\ su_pc' = "done"
    /\ UNCHANGED <<su_AB, su_BA, su_s, su_vtype, su_k, su_nshared>>
    /\ UNCHANGED <<sgvars, ovvars, mvars, cvars, advars, sovars>>

NextSum == SuStartType \/ SuSegment \/ SuReturn

SpecSum == InitSum /\ [][NextSum]_vars


-----------------------------------------------------------------------------
(* Claims about summary *)

\* the segments summed so far into s[vt]
SegsDone(vt) == IF vt = su_vtype THEN su_k ELSE SuSegments

\* the pairs of type vt in the first n comparisons of list, each <<segment, index>>
PairsOf(list, vt, n) ==
    UNION {{<<g, i>> : i \in 1..Len(list[g][vt])} : g \in 1..n}

\* the number of matched A->B pairs with the given predicate values; truth is
\* compared when cmptruth holds
NMatched(vt, passA, passB, somA, somB, truth, cmptruth) ==
    Cardinality({q \in PairsOf(su_AB, vt, SegsDone(vt)) :
        LET y == su_AB[q[1]][vt][q[2]] IN
            /\ matched(y)
            /\ recA_pass(y) = passA
            /\ recB_pass(y) = passB
            /\ recA_somatic(y) = somA
            /\ recB_somatic(y) = somB
            /\ (cmptruth => is_true(y) = truth)})

\* the number of unmatched pairs of list with the given predicate values
NUnmatched(list, vt, passA, somA, truth, cmptruth) ==
    Cardinality({q \in PairsOf(list, vt, SegsDone(vt)) :
        LET y == list[q[1]][vt][q[2]] IN
            /\ ~matched(y)
            /\ recA_pass(y) = passA
            /\ recA_somatic(y) = somA
            /\ (cmptruth => is_true(y) = truth)})

\* every counter of s equals the number of pairs with the category's values,
\* truth being compared for the categories cmptruth accepts
CountsAgree(cmptruth(_)) ==
    \A vt \in DOMAIN su_s :
        /\ \A truth \in BOOLEAN, passA \in BOOLEAN, passB \in BOOLEAN,
              somA \in BOOLEAN, somB \in BOOLEAN :
            su_s[vt].mat_cats[<<"matched", PassWord(passA), PassWord(passB),
                                SomWord(somA), SomWord(somB), TruthWord(truth)>>]
                = NMatched(vt, passA, passB, somA, somB, truth, cmptruth(truth))
        /\ \A truth \in BOOLEAN, passA \in BOOLEAN, somA \in BOOLEAN :
            /\ su_s[vt].unm_cats[<<"A_", "unmatched", PassWord(passA),
                                   SomWord(somA), TruthWord(truth)>>]
                = NUnmatched(su_AB, vt, passA, somA, truth, cmptruth(truth))
            /\ su_s[vt].unm_cats[<<"B_", "unmatched", PassWord(passA),
                                   SomWord(somA), TruthWord(truth)>>]
                = NUnmatched(su_BA, vt, passA, somA, truth, cmptruth(truth))

AlwaysCmp(truth) == TRUE
CmpWhenTruth(truth) == truth

\* C2 as stated: every counter of every variant type equals the number of
\* pairs whose predicate vector is exactly the category's vector; an
\* '..._overall' counter counts only the pairs with no truth record bound.
C2_CountsExactVector == CountsAgree(AlwaysCmp)

\* C2, amended: a matched_* counter is the number of matched A->B pairs, an
\* A_unmatched_* (B_unmatched_*) counter the number of unmatched A->B (B->A)
\* pairs, whose pass and somatic values are the category's; a '..._truth'
\* counter counts those of them with a truth record bound, an '..._overall'
\* counter counts all of them, with a truth record bound or not.
C2_CountsOverallAnyTruth == CountsAgree(CmpWhenTruth)

\* summary has returned over two segments; a matched pair with a truth record
\* is counted under its truth category and under its overall category, and
\* both directions have unmatched pairs
C2_Witness ==
    /\ su_pc = "done"
    /\ SuSegments = 2
    /\ \E i \in 1..Len(su_AB[1].SNV) :
        matched(su_AB[1].SNV[i]) /\ is_true(su_AB[1].SNV[i])
    /\ su_s.SNV.mat_cats[<<"matched", "fail", "pass", "somatic", "germline", "truth">>] = 2
    /\ su_s.SNV.mat_cats[<<"matched", "fail", "pass", "somatic", "germline", "overall">>] = 2
    /\ su_s.SNV.unm_cats[<<"A_", "unmatched", "pass", "germline", "overall">>] = 1
    /\ su_s.SNV.unm_cats[<<"B_", "unmatched", "fail", "germline", "truth">>] = 1
    /\ su_s.INDEL.unm_cats[<<"A_", "unmatched", "pass", "somatic", "overall">>] = 1


-----------------------------------------------------------------------------
(* Summary.add *)

MaxAdds == 3

\* the Summary objects merged: three of them, each met as self and as other
Objs == {"x", "y", "z"}

\* the Summary summary() builds for vtype over one segment
SummaryOf(vtype, compAB, compBA) ==
    SumSegment([Summary EXCEPT !.info.vartype = vtype], vtype, compAB, compBA)

\* the summaries of one segment each that the objects start as
SegSummaries ==
    {SummaryOf(vtype, ab, ba) :
        vtype \in {"SNV", "INDEL"},
        ab \in {[SNV |-> <<p>>, INDEL |-> <<IndelPair>>] :
                    p \in {SuPair(PassGermline, <<FailLoh>>, <<>>),
                           SuPair(FailSomatic, <<PassGermline>>, <<FailSomatic>>)}},
        ba \in {[SNV |-> <<SuPair(FailLoh, <<>>, <<FailLoh>>)>>, INDEL |-> <<>>]}}

InitAdd ==
    /\ ad_pc = "run"
    /\ ad_objs \in [Objs -> SegSummaries]
    /\ ad_orig = ad_objs
    /\ ad_merged = [i \in Objs |-> [j \in Objs |-> IF i = j THEN 1 ELSE 0]]
    /\ ad_n = 0
    /\ ad_last = <<>>
    /\ IdleSeg
    /\ IdleOv
    /\ IdleMatch
    /\ IdleCmp
    /\ IdleSum
    /\ IdleSom

\* self.add(other) for two objects of one variant type
AddCall ==
    /\ ad_pc = "run"
    /\ ad_n < MaxAdds
    /\ \E self \in Objs : \E other \in Objs \ {self} :
        /\ ad_objs[self].info.vartype = ad_objs[other].info.vartype
        /\ ad_objs' = [ad_objs EXCEPT ![self] = add(ad_objs[self], ad_objs[other])]
        /\ ad_merged' = [ad_merged EXCEPT ![self] =
                            [k \in Objs |-> ad_merged[self][k] + ad_merged[other][k]]]
        /\ ad_last' = <<self, other, ad_objs>>
    /\ ad_n' = ad_n + 1
    /\ UNCHANGED <<ad_pc, ad_orig>>
    /\ UNCHANGED <<sgvars, ovvars, mvars, cvars, suvars, sovars>>

\* self.add(other) for objects of different variant types: the assertion fails
AddAssertFail ==
    /\ ad_pc = "run"
    /\ ad_n < MaxAdds
    /\ \E self \in Objs : \E other \in Objs \ {self} :
        /\ ad_objs[self].info.vartype # ad_objs[other].info.vartype
        /\ ad_last' = <<self, other, ad_objs>>
    /\ ad_pc' = "error"
    /\ ad_n' = ad_n + 1
    /\ UNCHANGED <<ad_objs, ad_orig, ad_merged>>
    /\ UNCHANGED <<sgvars, ovvars, mvars, cvars, suvars, sovars>>

NextAdd == AddCall \/ AddAssertFail

SpecAdd == InitAdd /\ [][NextAdd]_vars

-----------------------------------------------------------------------------
(* Claims about Summary.add *)

RECURSIVE SetSum(_, _)
SetSum(f, S) ==
    IF S = {} THEN 0
    ELSE LET k == CHOOSE k \in S : TRUE IN f[k] + SetSum(f, S \ {k})

\* the counter-wise sum of the original objects, each taken as often as bag says
MergedCounts(bag, cats, n) ==
    SetSum([k \in Objs |-> bag[k] * cats[k][n]], Objs)

\* C3: Summary.add is commutative and associative on the counters: an object's
\* 32 matched and 16 unmatched counters are the counter-wise sum of the
\* original objects merged into it, whatever the order and the grouping of the
\* add calls; a call leaves the counters of its argument as they were; a call
\* on objects of different variant types fails its assertion and merges
\* nothing.
C3_AddCommutesAssociates ==
    /\ \A i \in Objs :
        /\ DOMAIN ad_objs[i].mat_cats = MatNames
        /\ DOMAIN ad_objs[i].unm_cats = UnmNames
        /\ Cardinality(MatNames) = 32
        /\ Cardinality(UnmNames) = 16
        /\ \A n \in MatNames :
            ad_objs[i].mat_cats[n]
                = MergedCounts(ad_merged[i], [k \in Objs |-> ad_orig[k].mat_cats], n)
        /\ \A n \in UnmNames :
            ad_objs[i].unm_cats[n]
                = MergedCounts(ad_merged[i], [k \in Objs |-> ad_orig[k].unm_cats], n)
    /\ \A i \in Objs, j \in Objs :
        ad_merged[i] = ad_merged[j] =>
            /\ ad_objs[i].mat_cats = ad_objs[j].mat_cats
            /\ ad_objs[i].unm_cats = ad_objs[j].unm_cats
    /\ ad_last # <<>> =>
        /\ \A k \in Objs \ {ad_last[1]} : ad_objs[k] = ad_last[3][k]
        /\ (ad_pc = "error") =
            (ad_last[3][ad_last[1]].info.vartype # ad_last[3][ad_last[2]].info.vartype)
        /\ ad_pc = "error" => ad_objs = ad_last[3]

\* x, y and z of one variant type were merged as (x+y)+z, and an unmatched and
\* a matched counter of x hold the sum of the three
C3_Witness ==
    /\ ad_pc = "run"
    /\ ad_n = 2
    /\ ad_merged["x"] = [k \in Objs |-> 1]
    /\ ad_merged["y"] = [k \in Objs |-> IF k = "y" THEN 1 ELSE 0]
    /\ ad_orig["x"] # ad_orig["y"]
    /\ ad_objs["x"].unm_cats[<<"B_", "unmatched", "fail", "germline", "truth">>] = 3
    /\ \E n \in MatNames : ad_objs["x"].mat_cats[n] = 2


-----------------------------------------------------------------------------
(* Claims about breakend matching *)

\* the length of the intersection of the confidence intervals of two records
CiOverlap(recA, recB) ==
    LET iv_a == get_conf_interval(recA, 0)
        iv_b == get_conf_interval(recB, 0)
    IN  Min2(iv_a[2], iv_b[2]) - Max2(iv_a[1], iv_b[1])

\* C11: for two structural variants with SVTYPE 'BND', vcfVariantMatch is true
\* exactly when orientSV of their first alternate alleles is equal and their
\* confidence intervals intersect with positive length, also when an interval
\* starts at a zero or negative coordinate.
C11_BndMatchIffOrientAndOverlap ==
    (m_pc = "matched" /\ m_recA.SVTYPE = "BND" /\ m_recB.SVTYPE = "BND") =>
        (m_res <=> /\ orientSV(m_recA.ALT[1]) = orientSV(m_recB.ALT[1])
                   /\ CiOverlap(m_recA, m_recB) > 0)


-----------------------------------------------------------------------------
(* Claims about the buckets of the Comparison *)

\* the pairs of bucket vt whose recA is the source record at place i
PairsOfSource(vt, i) ==
    IF vt \in DOMAIN c_cmp
    THEN {j \in 1..Len(c_cmp[vt]) : c_cmp[vt][j].ia = i /\ c_cmp[vt][j].recA = c_src[i]}
    ELSE {}

\* the bucket the claim gives a record: SNV, INDEL, SV for a breakend
\* structural variant, "None" for a record of an unsupported type
OwnBucket(rec) ==
    IF rec.is_snp THEN "SNV"
    ELSE IF rec.is_indel THEN "INDEL"
    ELSE IF rec.SVTYPE = "BND" THEN "SV"
    ELSE "None"

\* C12: compareVCFs completes on every source collection, and in the returned
\* Comparison every unmasked source record that is an SNV, an indel or a
\* breakend structural variant is the recA of exactly one pair, stored in the
\* bucket of its own type in traversal order; masked records and records of
\* unsupported types are the recA of no pair.
C12_EveryRecordInItsBucket ==
    /\ c_pc # "error"
    /\ c_pc = "done" =>
        \A i \in 1..Len(c_src) :
            \A vt \in {"SNV", "INDEL", "SV"} :
                Cardinality(PairsOfSource(vt, i)) =
                    IF /\ ~(c_mask.present /\ MaskedRec(c_src[i]))
                       /\ OwnBucket(c_src[i]) = vt
                    THEN 1 ELSE 0
    /\ \A vt \in DOMAIN c_cmp :
        \A j \in 1..Len(c_cmp[vt]), k \in 1..Len(c_cmp[vt]) :
            j < k => c_cmp[vt][j].ia < c_cmp[vt][k].ia


-----------------------------------------------------------------------------
(* Variant.recA_somatic and Variant.recB_somatic, called on a pair *)

\* records that differ in INFO SS, the INFO SOMATIC flag and the samples' SS
SomRecs ==
    {SumRec(SnvShape, <<>>, ss, somatic, gtss) :
        ss \in {"None", "SOMATIC", "somatic", "2", "1", "LOH", "loh"},
        somatic \in BOOLEAN,
        gtss \in {<<>>, <<"0">>, <<"2">>, <<"0", "2">>}}

InitSom ==
    /\ so_pc = "input"
    /\ so_v \in {SuPair(a, b, <<>>) :
                    a \in SomRecs, b \in {<<>>} \cup {<<r>> : r \in SomRecs}}
    /\ so_res = FALSE
    /\ IdleSeg
    /\ IdleOv
    /\ IdleMatch
    /\ IdleCmp
    /\ IdleSum
    /\ IdleAdd

\* the call v.recA_somatic()
SoCallA ==
    /\ so_pc = "input"
    /\ so_res' = recA_somatic(so_v)
    /\ so_pc' = "A"
    /\ UNCHANGED <<so_v, sgvars, ovvars, mvars, cvars, suvars, advars>>

\* the call v.recB_somatic()
SoCallB ==
    /\ so_pc = "input"
    /\ so_res' = recB_somatic(so_v)
    /\ so_pc' = "B"
    /\ UNCHANGED <<so_v, sgvars, ovvars, mvars, cvars, suvars, advars>>

NextSom == SoCallA \/ SoCallB

SpecSom == InitSom /\ [][NextSom]_vars

-----------------------------------------------------------------------------
(* Claims about the somatic predicates *)

\* the rule of the claim, the comparison of INFO SS taken in either case:
\* (a) SS is SOMATIC or 2, or (b) the SOMATIC flag is set and SS is not LOH,
\* or (c) some sample's SS is 2
SomaticRule(rec) ==
    \/ rec.SS \in {"SOMATIC", "somatic", "2"}
    \/ rec.SOMATIC /\ rec.SS \notin {"LOH", "loh"}
    \/ \E i \in 1..Len(rec.GTSS) : rec.GTSS[i] = "2"

\* C13: recA_somatic (for recA) and recB_somatic (for recB of a matched pair)
\* each return true exactly when the rule (a) or (b) or (c) holds of the
\* record, so a record with the SOMATIC flag and SS = LOH is somatic exactly
\* when (c) holds, on either side; recB_somatic is false for an unmatched pair.
C13_SomaticSameOnBothSides ==
    /\ so_pc = "A" => (so_res <=> SomaticRule(so_v.recA))
    /\ so_pc = "B" =>
        (so_res <=> (so_v.recB # <<>> /\ SomaticRule(so_v.recB[1])))


-----------------------------------------------------------------------------
(* Claims about the asymmetry warning and the conservation of counts *)

\* the pairs of type vt in the segments of list that satisfy pred
NPairs(list, vt, pred(_)) ==
    Cardinality({q \in PairsOf(list, vt, SuSegments) : pred(list[q[1]][vt][q[2]])})

IsMatchedPair(y) == y.recB # <<>>
IsUnmatchedPair(y) == y.recB = <<>>
IsAnyPair(y) == TRUE

\* the sum of the counters of cats whose name is in names
CatSum(cats, names) == SetSum(cats, names)

MatOverall == {n \in MatNames : n[6] = "overall"}
UnmOverall(prefix) == {n \in UnmNames : n[1] = prefix /\ n[5] = "overall"}

\* C14: whenever the number of matched pairs of a variant type in the A->B
\* comparisons differs from that in the B->A comparisons, summary writes the
\* 'overlap was not symmetric' warning for that type, and it returns the
\* Summary built from the A->B matched counts.
C14_AsymmetryReported ==
    su_pc = "done" =>
        \A vt \in DOMAIN su_s :
            /\ NPairs(su_AB, vt, IsMatchedPair) # NPairs(su_BA, vt, IsMatchedPair)
                  => vt \in su_warned
            /\ CatSum(su_s[vt].mat_cats, MatOverall) = NPairs(su_AB, vt, IsMatchedPair)


\* the truth category of the same prefix and pass/somatic values
TruthName(n) == [n EXCEPT ![Len(n)] = "truth"]

\* C15: when summary has returned over equally long lists, for every variant
\* type (1) the 16 matched overall counters and the 4 A_unmatched overall
\* counters sum to the number of pairs of the type in the A->B comparisons,
\* (2) the 4 B_unmatched overall counters sum to the number of unmatched pairs
\* of the type in the B->A comparisons, and (3) every truth counter is at most
\* the overall counter of the same prefix and pass/somatic values.
C15_CountsConserved ==
    (su_pc = "done" /\ Len(su_AB) = Len(su_BA)) =>
        \A vt \in DOMAIN su_s :
            /\ Cardinality(MatOverall) = 16
            /\ Cardinality(UnmOverall("A_")) = 4
            /\ Cardinality(UnmOverall("B_")) = 4
            /\ CatSum(su_s[vt].mat_cats, MatOverall)
                 + CatSum(su_s[vt].unm_cats, UnmOverall("A_"))
                 = NPairs(su_AB, vt, IsAnyPair)
            /\ CatSum(su_s[vt].unm_cats, UnmOverall("B_"))
                 = NPairs(su_BA, vt, IsUnmatchedPair)
            /\ \A n \in MatOverall :
                 su_s[vt].mat_cats[TruthName(n)] <= su_s[vt].mat_cats[n]
            /\ \A n \in UnmOverall("A_") \cup UnmOverall("B_") :
                 su_s[vt].unm_cats[TruthName(n)] <= su_s[vt].unm_cats[n]

\* summary has returned over two segments on each side; the A->B comparisons
\* hold matched and unmatched SNV pairs, with and without a truth record, and
\* the B->A comparisons hold matched and unmatched pairs
C15_Witness ==
    /\ su_pc = "done"
    /\ Len(su_AB) = 2
    /\ Len(su_BA) = 2
    /\ NPairs(su_AB, "SNV", IsAnyPair) = 3
    /\ NPairs(su_AB, "SNV", IsMatchedPair) = 2
    /\ NPairs(su_BA, "SNV", IsMatchedPair) = 1
    /\ NPairs(su_BA, "SNV", IsUnmatchedPair) = 2
    /\ \E n \in MatOverall :
        /\ su_s.SNV.mat_cats[TruthName(n)] = 1
        /\ su_s.SNV.mat_cats[n] = 1
    /\ \E n \in MatOverall :
        /\ su_s.SNV.mat_cats[TruthName(n)] = 0
        /\ su_s.SNV.mat_cats[n] = 1
    /\ \E n \in UnmOverall("B_") :
        /\ su_s.SNV.unm_cats[TruthName(n)] = 1
        /\ su_s.SNV.unm_cats[n] = 1

=============================================================================
